---------------------------- MODULE Spec2Model ----------------------------
(***************************************************************************)
(* A state-machine model of src/mass_attacher.c: the mass-attachment       *)
(* engine of retsnoop (new -> allow/deny globs -> prepare -> load ->       *)
(* attach -> activate -> free).                                            *)
(*                                                                         *)
(* C strings are sequences of one-character strings; a NULL char pointer   *)
(* is the one-element sequence NullStr.  Kernel handles (program fds,      *)
(* link fds, struct bpf_link pointers) are positive integers handed out    *)
(* by the kernel in allocation order, 0 being the calloc()ed "unset"       *)
(* value.  Error returns are the strings "-EINVAL", "-E2BIG", ... and a    *)
(* kernel-chosen errno is "-errno".                                        *)
(*                                                                         *)
(* Not modelled: allocation failure (-ENOMEM paths), console output, and   *)
(* the setrlimit/kallsyms/BTF loading failures at the top of prepare.      *)
(***************************************************************************)
EXTENDS Integers, Sequences, FiniteSets, TLC

(***************************************************************************)
(* Bounds of the model.                                                    *)
(***************************************************************************)
\* the max_func_cnt option the caller passes when it passes one
MaxCap == 2
\* number of allow_glob/deny_glob calls the caller makes before prepare
MaxUserRules == 1
\* the last FunctionRecord (C index) at which the kernel fails a call
MaxFailFn == 1

(***************************************************************************)
(* Program constants.                                                      *)
(***************************************************************************)
MAX_FUNC_ARG_CNT == 6

NullStr == <<"NULL">>

\* enum mass_attacher_mode; calloc() leaves the first enumerator
Modes == {"KPROBE", "KPROBE_SINGLE", "FENTRY"}

(***************************************************************************)
(* Strings.                                                                *)
(***************************************************************************)
\* the characters used by the model, in ASCII order
Chars == <<"!", "*", "1", "_", "a", "e", "i", "k", "m", "n",
           "p", "q", "s", "t", "u", "v", "x">>

Ord(c) == CHOOSE i \in 1..Len(Chars) : Chars[i] = c

RECURSIVE strcmp(_, _)
strcmp(a, b) ==
    IF a = <<>> /\ b = <<>> THEN 0
    ELSE IF a = <<>> THEN -1
    ELSE IF b = <<>> THEN 1
    ELSE IF Ord(Head(a)) < Ord(Head(b)) THEN -1
    ELSE IF Ord(Head(a)) > Ord(Head(b)) THEN 1
    ELSE strcmp(Tail(a), Tail(b))

str_has_pfx(str, pfx) ==
    /\ Len(str) >= Len(pfx)
    /\ SubSeq(str, 1, Len(pfx)) = pfx

\* shell-style wildcard match, "*" matching any run of characters
RECURSIVE glob_matches(_, _)
glob_matches(glob, str) ==
    IF glob = <<>> THEN str = <<>>
    ELSE IF Head(glob) = "*"
         THEN \/ glob_matches(Tail(glob), str)
              \/ (str # <<>> /\ glob_matches(glob, Tail(str)))
    ELSE /\ str # <<>>
         /\ Head(str) = Head(glob)
         /\ glob_matches(Tail(glob), Tail(str))

\* name must match; a module glob, when given, must match the module, and
\* a function without module fails a rule that has a module glob
full_glob_matches(glob, mod_glob, name, module) ==
    /\ glob_matches(glob, name)
    /\ \/ mod_glob = NullStr
       \/ (module # NullStr /\ glob_matches(mod_glob, module))

(***************************************************************************)
(* Built-in deny lists.  The 14 enforced patterns are of two shapes, a     *)
(* literal name and a literal prefix followed by "*"; the 8 sleepable      *)
(* patterns are "*suffix" and "*infix*".  One abbreviated pattern stands   *)
(* for each shape:  "me" for migrate_enable, "te*" for __bpf_tramp_enter*, *)
(* "*_s" for *_sys_select, "*_p*" for *_sys_poll*.                         *)
(***************************************************************************)
enforced_deny_globs == << <<"m", "e">>, <<"t", "e", "*">> >>

sleepable_deny_globs == << <<"*", "_", "s">>, <<"*", "_", "p", "*">> >>

(***************************************************************************)
(* The kernel the engine runs on.                                          *)
(***************************************************************************)
\* vmlinux BTF: type ids 1..Len(Btf); type id 0 is void.  A parameter of
\* type 0 in a FUNC_PROTO is the variadic "..." marker.
T(kind, name, type, params) ==
    [kind |-> kind, name |-> name, type |-> type, params |-> params]

Btf == <<
    T("int",        <<"i">>,        0, <<>>),                    \*  1 int
    T("ptr",        <<>>,           0, <<>>),                    \*  2 void *
    T("struct",     <<"s">>,        0, <<>>),                    \*  3 struct s
    T("ptr",        <<>>,           3, <<>>),                    \*  4 struct s *
    T("ptr",        <<>>,           1, <<>>),                    \*  5 int *
    T("typedef",    <<"u">>,        1, <<>>),                    \*  6 typedef int u
    T("const",      <<>>,           4, <<>>),                    \*  7 struct s *const
    T("enum",       <<"e">>,        0, <<>>),                    \*  8 enum e
    T("func_proto", <<>>,           1, <<4, 6>>),                \*  9 int (struct s *, u)
    T("func_proto", <<>>,           0, <<1>>),                   \* 10 void (int)
    T("func_proto", <<>>,           5, <<>>),                    \* 11 int *(void)
    T("func_proto", <<>>,           1, <<1, 0>>),                \* 12 int (int, ...)
    T("func_proto", <<>>,           7, <<8>>),                   \* 13 struct s *const (enum e)
    T("func_proto", <<>>,           1, <<3>>),                   \* 14 int (struct s)
    T("func_proto", <<>>,           1, <<1, 1, 1, 1, 1, 1, 1>>), \* 15 int (7 x int)
    T("func",       <<"u", "s">>,        10, <<>>),              \* 16 udp_sendmsg
    T("func",       <<"m", "e">>,        10, <<>>),              \* 17 migrate_enable
    T("func",       <<"t", "s">>,         9, <<>>),              \* 18 tcp_sendmsg
    T("func",       <<"i", "n">>,         9, <<>>),              \* 19 inlined, no symbol
    T("func",       <<"t", "p">>,        11, <<>>),              \* 20 returns int *
    T("func",       <<"t", "e", "_", "q">>, 10, <<>>),           \* 21 __bpf_tramp_enter_x
    T("func",       <<"x", "_", "s">>,    9, <<>>),              \* 22 __x64_sys_select
    T("func",       <<"n", "t">>,         9, <<>>),              \* 23 notrace function
    T("func",       <<"t", "v">>,        12, <<>>),              \* 24 variadic
    T("func",       <<"t", "q">>,        13, <<>>),              \* 25 enum -> struct s *
    T("func",       <<"a", "s">>,        14, <<>>),              \* 26 struct by value
    T("func",       <<"a", "x">>,        15, <<>>)               \* 27 seven arguments
>>

\* btf__type_cnt(): number of types including void
btf__type_cnt == Len(Btf) + 1

btf__type_by_id(id) == Btf[id]

btf_is_func(t) == t.kind = "func"
btf_is_mod(t) == t.kind \in {"const", "volatile", "restrict"}
btf_is_typedef(t) == t.kind = "typedef"
btf_is_int(t) == t.kind = "int"
btf_is_ptr(t) == t.kind = "ptr"
btf_is_enum(t) == t.kind \in {"enum", "enum64"}
btf_is_composite(t) == t.kind \in {"struct", "union"}
btf_vlen(t) == Len(t.params)

\* /proc/kallsyms: name -> address, size, module
K(name, addr, module) == [name |-> name, addr |-> addr, module |-> module]

Ksyms == {
    K(<<"u", "s">>, 10, NullStr),
    K(<<"m", "e">>, 11, NullStr),
    K(<<"t", "s">>, 12, NullStr),
    K(<<"t", "p">>, 13, NullStr),
    K(<<"t", "e", "_", "q">>, 14, NullStr),
    K(<<"x", "_", "s">>, 15, NullStr),
    K(<<"n", "t">>, 16, NullStr),
    K(<<"t", "v">>, 17, NullStr),
    K(<<"t", "q">>, 18, NullStr),
    K(<<"a", "s">>, 19, NullStr),
    K(<<"a", "x">>, 20, NullStr),
    K(<<"t", "k">>, 21, <<"m", "1">>),
    K(<<"t", "e">>, 22, NullStr) }

NoKsym == K(NullStr, 0, NullStr)

ksyms__get_symbol(name) ==
    IF \E k \in Ksyms : k.name = name
    THEN CHOOSE k \in Ksyms : k.name = name
    ELSE NoKsym

\* available_filter_functions, in file order; "!" abbreviates the
\* "__ftrace_invalid_address___" prefix of placeholder entries; the file
\* lists a name once per same-named static function
AvailableFilterFunctions == <<
    <<"t", "s">>, <<"u", "s">>, <<"!", "1">>, <<"t", "k">>, <<"m", "e">>,
    <<"t", "p">>, <<"x", "_", "s">>, <<"t", "e", "_", "q">>, <<"t", "s">>,
    <<"t", "v">>, <<"t", "q">>, <<"t", "e">>, <<"a", "s">>, <<"a", "x">> >>

FTRACE_INVALID_PFX == <<"!">>

(***************************************************************************)
(* Prototype checks.                                                       *)
(***************************************************************************)
NoType == T("void", <<>>, 0, <<>>)

RECURSIVE skip_mods_and_typedefs(_)
skip_mods_and_typedefs(t) ==
    IF btf_is_mod(t) \/ btf_is_typedef(t)
    THEN skip_mods_and_typedefs(btf__type_by_id(t.type))
    ELSE t

func_arg_cnt(id) ==
    IF id = 0 THEN 0
    ELSE btf_vlen(btf__type_by_id(btf__type_by_id(id).type))

is_arg_type_ok(t0) ==
    LET t == skip_mods_and_typedefs(t0)
    IN  btf_is_int(t) \/ btf_is_ptr(t) \/ btf_is_enum(t)

is_ret_type_ok(t0) ==
    LET t == skip_mods_and_typedefs(t0)
    IN  IF btf_is_int(t) \/ btf_is_enum(t) THEN TRUE
        ELSE IF ~btf_is_ptr(t) THEN FALSE
        ELSE IF t.type = 0 THEN TRUE
        ELSE btf_is_composite(btf__type_by_id(t.type))

is_ret_void(btf_id) ==
    btf__type_by_id(btf__type_by_id(btf_id).type).type = 0

\* is_func_type_ok without the argument-count test of line 1111
is_func_type_ok_any_arity(t0) ==
    LET t == btf__type_by_id(t0.type)
    IN  /\ (t.type # 0 => is_ret_type_ok(btf__type_by_id(t.type)))
        /\ \A i \in 1..btf_vlen(t) :
              /\ t.params[i] # 0
              /\ is_arg_type_ok(btf__type_by_id(t.params[i]))

is_func_type_ok(t0) ==
    LET t == btf__type_by_id(t0.type)
    IN  /\ btf_vlen(t) <= MAX_FUNC_ARG_CNT
        /\ (t.type # 0 => is_ret_type_ok(btf__type_by_id(t.type)))
        /\ \A i \in 1..btf_vlen(t) :
              /\ t.params[i] # 0
              /\ is_arg_type_ok(btf__type_by_id(t.params[i]))

(***************************************************************************)
(* The engine: struct mass_attacher.                                       *)
(***************************************************************************)
ArgCnts == 0..MAX_FUNC_ARG_CNT

\* calloc(1, sizeof(*att))
Calloc ==
    [attach_mode |-> "KPROBE", use_fentries |-> FALSE,
     use_kprobe_multi |-> FALSE, dry_run |-> FALSE, max_func_cnt |-> 0,
     func_filter |-> "NULL",
     kret_ip_off |-> 0, has_bpf_get_func_ip |-> FALSE,
     has_fexit_sleep_fix |-> FALSE, has_fentry_protection |-> FALSE,
     has_bpf_cookie |-> FALSE, has_kprobe_multi |-> FALSE,
     vmlinux_btf |-> FALSE,
     func_infos |-> <<>>, func_cnt |-> 0,
     func_info_cnts |-> [i \in ArgCnts |-> 0],
     func_info_id_for_arg_cnt |-> [i \in ArgCnts |-> 0],
     kprobes |-> <<>>, kprobe_cnt |-> 0,
     func_skip_cnt |-> 0,
     allow_glob_cnt |-> 0, deny_glob_cnt |-> 0,
     allow_globs |-> <<>>, deny_globs |-> <<>>,
     kentry_multi_link |-> 0, kexit_multi_link |-> 0]

\* is_valid_glob without the test for the empty string
is_valid_glob_accepts_empty(glob) ==
    /\ glob # NullStr
    /\ glob # <<"*", "*">>

is_valid_glob(glob) ==
    /\ glob # NullStr
    /\ Len(glob) # 0
    /\ glob # <<"*", "*">>

GlobRule(glob, mod_glob) ==
    [glob |-> glob, mod_glob |-> mod_glob, matches |-> 0]

\* both return [att, ret]
mass_attacher__allow_glob(a, glob, mod_glob) ==
    IF ~is_valid_glob(glob) THEN [att |-> a, ret |-> "-EINVAL"]
    ELSE IF mod_glob # NullStr /\ ~is_valid_glob(mod_glob)
    THEN [att |-> a, ret |-> "-EINVAL"]
    ELSE [att |-> [a EXCEPT
                     !.allow_globs = Append(@, GlobRule(glob, mod_glob)),
                     !.allow_glob_cnt = @ + 1],
          ret |-> "0"]

mass_attacher__deny_glob(a, glob, mod_glob) ==
    IF ~is_valid_glob(glob) THEN [att |-> a, ret |-> "-EINVAL"]
    ELSE IF mod_glob # NullStr /\ ~is_valid_glob(mod_glob)
    THEN [att |-> a, ret |-> "-EINVAL"]
    ELSE [att |-> [a EXCEPT
                     !.deny_globs = Append(@, GlobRule(glob, mod_glob)),
                     !.deny_glob_cnt = @ + 1],
          ret |-> "0"]

\* for (i = 0; i < ARRAY_SIZE(globs); i++) mass_attacher__deny_glob(...);
\* returns [att, ret], stopping at the first error
RECURSIVE deny_all(_, _, _)
deny_all(a, globs, i) ==
    IF i > Len(globs) THEN [att |-> a, ret |-> "0"]
    ELSE LET r == mass_attacher__deny_glob(a, globs[i], NullStr)
         IN  IF r.ret # "0" THEN r ELSE deny_all(r.att, globs, i + 1)

\* struct mass_attacher_opts; NoOpts is the NULL pointer
NoOpts == [null |-> TRUE]

Filters == {"NULL", "not_udp", "typed_only"}

OptsInputs ==
    [null : {FALSE}, attach_mode : Modes, dry_run : BOOLEAN,
     max_func_cnt : {0, MaxCap}, func_filter : Filters]

\* returns the new instance (skel is non-NULL; the enforced globs are valid,
\* so the error path that frees the instance is not taken)
mass_attacher__new(opts) ==
    IF opts.null THEN Calloc
    ELSE deny_all([Calloc EXCEPT
                     !.max_func_cnt = opts.max_func_cnt,
                     !.dry_run = opts.dry_run,
                     !.attach_mode = opts.attach_mode,
                     !.use_fentries = (opts.attach_mode = "FENTRY"),
                     !.func_filter = opts.func_filter],
                  enforced_deny_globs, 1).att

\* the caller's callback: func_filter(att, btf, btf_id, name, func_idx)
func_filter(f, btf_id, name, func_idx) ==
    CASE f = "not_udp" -> name # <<"u", "s">>
      [] f = "typed_only" -> btf_id # 0
      [] OTHER -> TRUE

(***************************************************************************)
(* KprobeIndex.                                                            *)
(***************************************************************************)
kprobe_info(name) == [name |-> name, used |-> FALSE]

\* kprobe_order: strcmp of the names
RECURSIVE insert_by_kprobe_order(_, _)
insert_by_kprobe_order(sorted, k) ==
    IF sorted = <<>> THEN <<k>>
    ELSE IF strcmp(k.name, Head(sorted).name) <= 0 THEN <<k>> \o sorted
    ELSE <<Head(sorted)>> \o insert_by_kprobe_order(Tail(sorted), k)

RECURSIVE qsort(_)
qsort(arr) ==
    IF arr = <<>> THEN <<>>
    ELSE insert_by_kprobe_order(qsort(Tail(arr)), Head(arr))

RECURSIVE read_kprobes(_)
read_kprobes(lines) ==
    IF lines = <<>> THEN <<>>
    ELSE IF str_has_pfx(Head(lines), FTRACE_INVALID_PFX)
    THEN read_kprobes(Tail(lines))
    ELSE <<kprobe_info(Head(lines))>> \o read_kprobes(Tail(lines))

load_available_kprobes(a) ==
    LET ks == qsort(a.kprobes \o read_kprobes(AvailableFilterFunctions))
    IN  [a EXCEPT !.kprobes = ks, !.kprobe_cnt = Len(ks)]

\* bsearch() over C indices l..u-1; -1 when absent
RECURSIVE bsearch(_, _, _, _)
bsearch(name, kprobes, l, u) ==
    IF l >= u THEN -1
    ELSE LET idx == (l + u) \div 2
             cmp == strcmp(name, kprobes[idx + 1].name)
         IN  IF cmp < 0 THEN bsearch(name, kprobes, l, idx)
             ELSE IF cmp > 0 THEN bsearch(name, kprobes, idx + 1, u)
             ELSE idx

find_kprobe(a, name) == bsearch(name, a.kprobes, 0, a.kprobe_cnt)

(***************************************************************************)
(* prepare_func: the filter stages for one candidate.                      *)
(***************************************************************************)
\* the first rule of globs (C index) matching the function, or -1
first_match(globs, cnt, func_name, module) ==
    LET hits == {i \in 1..cnt :
                   full_glob_matches(globs[i].glob, globs[i].mod_glob,
                                     func_name, module)}
    IN  IF hits = {} THEN -1
        ELSE (CHOOSE i \in hits : \A j \in hits : i <= j) - 1

\* the capacity check with the comparison off by one
capacity_reached_off_by_one(a) ==
    a.max_func_cnt # 0 /\ a.func_cnt > a.max_func_cnt

\* the capacity check without the test for "no maximum configured"
capacity_reached_without_zero_test(a) ==
    a.func_cnt >= a.max_func_cnt

\* line 636: the capacity check
capacity_reached(a) ==
    a.max_func_cnt # 0 /\ a.func_cnt >= a.max_func_cnt

\* line 629: the id handed to the callback is the loop variable i, which
\* the deny loop left at deny_glob_cnt and the allow loop, when there are
\* allow rules, at the index of the matching rule
filter_id_arg(a, allow_i, btf_id) ==
    IF a.allow_glob_cnt # 0 THEN allow_i ELSE a.deny_glob_cnt

func_info(ksym, arg_cnt, btf_id) ==
    [name |-> ksym.name, addr |-> ksym.addr, module |-> ksym.module,
     arg_cnt |-> arg_cnt, btf_id |-> btf_id,
     fentry_prog_fd |-> 0, fexit_prog_fd |-> 0,
     fentry_link_fd |-> 0, fexit_link_fd |-> 0,
     kentry_link |-> 0, kexit_link |-> 0]

\* append_func storing the count after the increment as the representative
append_func_representative_off_by_one(a, ksym, btf_id) ==
    LET arg_cnt == func_arg_cnt(btf_id)
        a1 == [a EXCEPT !.func_infos =
                            Append(@, func_info(ksym, arg_cnt, btf_id))]
        a2 == IF a.use_fentries
              THEN [a1 EXCEPT
                      !.func_info_cnts[arg_cnt] = @ + 1,
                      !.func_info_id_for_arg_cnt[arg_cnt] =
                          IF @ = 0 THEN a.func_cnt + 1 ELSE @]
              ELSE a1
    IN  [a2 EXCEPT !.func_cnt = @ + 1]

\* lines 643-666: append the record
append_func(a, ksym, btf_id) ==
    LET arg_cnt == func_arg_cnt(btf_id)
        a1 == [a EXCEPT !.func_infos =
                            Append(@, func_info(ksym, arg_cnt, btf_id))]
        a2 == IF a.use_fentries
              THEN [a1 EXCEPT
                      !.func_info_cnts[arg_cnt] = @ + 1,
                      !.func_info_id_for_arg_cnt[arg_cnt] =
                          IF @ = 0 THEN a.func_cnt ELSE @]
              ELSE a1
    IN  [a2 EXCEPT !.func_cnt = @ + 1]

Skip(a) ==
    [att |-> [a EXCEPT !.func_skip_cnt = @ + 1], ret |-> "0",
     fcall |-> <<>>, stage |-> "skip"]

\* prepare_func_tail with the prototype stage applied in every mode to a
\* candidate that has type information
prepare_func_tail_proto_in_every_mode(a, func_name, ksym, t, btf_id, allow_i) ==
    LET kprobe_idx == find_kprobe(a, func_name)
    IN
    IF kprobe_idx < 0 THEN [Skip(a) EXCEPT !.stage = "index"]
    ELSE
    LET a1 == [a EXCEPT !.kprobes[kprobe_idx + 1].used = TRUE]
        id == filter_id_arg(a1, allow_i, btf_id)
        fcall == <<[id |-> id, name |-> func_name, idx |-> a1.func_cnt]>>
    IN
    IF t # NoType /\ ~is_func_type_ok(t)
    THEN [Skip(a1) EXCEPT !.stage = "proto"]
    ELSE IF /\ a1.func_filter # "NULL"
            /\ ~func_filter(a1.func_filter, id, func_name, a1.func_cnt)
    THEN [Skip(a1) EXCEPT !.fcall = fcall, !.stage = "filter"]
    ELSE
    LET fc == IF a1.func_filter # "NULL" THEN fcall ELSE <<>>
    IN
    IF capacity_reached(a1)
    THEN [att |-> a1, ret |-> "-E2BIG", fcall |-> fc, stage |-> "capacity"]
    ELSE [att |-> append_func(a1, ksym, btf_id), ret |-> "0",
          fcall |-> fc, stage |-> "accepted"]

\* lines 613-671: from the index lookup on; allow_i is the loop variable
\* left by the allow loop
prepare_func_tail(a, func_name, ksym, t, btf_id, allow_i) ==
    LET kprobe_idx == find_kprobe(a, func_name)
    IN
    IF kprobe_idx < 0 THEN [Skip(a) EXCEPT !.stage = "index"]
    ELSE
    LET a1 == [a EXCEPT !.kprobes[kprobe_idx + 1].used = TRUE]
        id == filter_id_arg(a1, allow_i, btf_id)
        fcall == <<[id |-> id, name |-> func_name, idx |-> a1.func_cnt]>>
    IN
    IF a1.use_fentries /\ ~is_func_type_ok(t)
    THEN [Skip(a1) EXCEPT !.stage = "proto"]
    ELSE IF /\ a1.func_filter # "NULL"
            /\ ~func_filter(a1.func_filter, id, func_name, a1.func_cnt)
    THEN [Skip(a1) EXCEPT !.fcall = fcall, !.stage = "filter"]
    ELSE
    LET fc == IF a1.func_filter # "NULL" THEN fcall ELSE <<>>
    IN
    IF capacity_reached(a1)
    THEN [att |-> a1, ret |-> "-E2BIG", fcall |-> fc, stage |-> "capacity"]
    ELSE [att |-> append_func(a1, ksym, btf_id), ret |-> "0",
          fcall |-> fc, stage |-> "accepted"]

\* prepare_func with the allow loop run ahead of the deny loop
prepare_func_allow_first(a, func_name, t, btf_id) ==
    LET ksym == ksyms__get_symbol(func_name)
        deny_i == first_match(a.deny_globs, a.deny_glob_cnt,
                              func_name, ksym.module)
        allow_i == first_match(a.allow_globs, a.allow_glob_cnt,
                               func_name, ksym.module)
        a1 == IF a.allow_glob_cnt # 0 /\ allow_i >= 0
              THEN [a EXCEPT !.allow_globs[allow_i + 1].matches = @ + 1]
              ELSE a
    IN
    IF ksym = NoKsym THEN [Skip(a) EXCEPT !.stage = "symbol"]
    ELSE IF a.allow_glob_cnt # 0 /\ allow_i < 0
    THEN [Skip(a) EXCEPT !.stage = "allow"]
    ELSE IF deny_i >= 0
    THEN [Skip([a1 EXCEPT !.deny_globs[deny_i + 1].matches = @ + 1])
            EXCEPT !.stage = "deny"]
    ELSE prepare_func_tail(a1, func_name, ksym, t, btf_id, allow_i)

\* returns [att, ret, fcall, stage]: the engine after the call, the return
\* value, the callback invocation made (at most one) and the stage that
\* decided the candidate
prepare_func(a, func_name, t, btf_id) ==
    LET ksym == ksyms__get_symbol(func_name)
        deny_i == first_match(a.deny_globs, a.deny_glob_cnt,
                              func_name, ksym.module)
        allow_i == first_match(a.allow_globs, a.allow_glob_cnt,
                               func_name, ksym.module)
    IN
    IF ksym = NoKsym THEN [Skip(a) EXCEPT !.stage = "symbol"]
    ELSE IF deny_i >= 0
    THEN [Skip([a EXCEPT !.deny_globs[deny_i + 1].matches = @ + 1])
            EXCEPT !.stage = "deny"]
    ELSE IF a.allow_glob_cnt # 0 /\ allow_i < 0
    THEN [Skip(a) EXCEPT !.stage = "allow"]
    ELSE
    LET a1 == IF a.allow_glob_cnt # 0
              THEN [a EXCEPT !.allow_globs[allow_i + 1].matches = @ + 1]
              ELSE a
    IN  prepare_func_tail(a1, func_name, ksym, t, btf_id, allow_i)

(***************************************************************************)
(* Feature calibration.                                                    *)
(***************************************************************************)
\* what the calibration probes report on the running kernel
Kern(load_ok, attach_ok, off, ip, sleep, prot, cookie, multi) ==
    [load_ok |-> load_ok, attach_ok |-> attach_ok, kret_ip_off |-> off,
     has_bpf_get_func_ip |-> ip, has_fexit_sleep_fix |-> sleep,
     has_fentry_protection |-> prot, has_bpf_cookie |-> cookie,
     has_kprobe_multi |-> multi]

Kernels == {
    Kern(FALSE, FALSE, 0, FALSE, FALSE, FALSE, FALSE, FALSE),
    Kern(TRUE,  FALSE, 0, FALSE, FALSE, FALSE, FALSE, FALSE),
    Kern(TRUE,  TRUE,  0, FALSE, TRUE,  TRUE,  TRUE,  TRUE),
    Kern(TRUE,  TRUE,  8, FALSE, FALSE, FALSE, FALSE, FALSE),
    Kern(TRUE,  TRUE,  0, TRUE,  TRUE,  FALSE, TRUE,  FALSE),
    Kern(TRUE,  TRUE,  8, TRUE,  TRUE,  TRUE,  TRUE,  TRUE) }

\* calibrate_features treating a missing opaque-tag feature as fatal too
calibrate_features_requires_cookie(a, k) ==
    IF ~k.load_ok
    THEN [att |-> a, ret |-> "-EFAULT", loaded |-> FALSE, destroyed |-> FALSE]
    ELSE IF ~k.attach_ok
    THEN [att |-> a, ret |-> "-EFAULT", loaded |-> TRUE, destroyed |-> TRUE]
    ELSE IF (~k.has_bpf_get_func_ip /\ k.kret_ip_off = 0) \/ ~k.has_bpf_cookie
    THEN [att |-> a, ret |-> "-EFAULT", loaded |-> TRUE, destroyed |-> FALSE]
    ELSE [att |-> [a EXCEPT
                     !.kret_ip_off = k.kret_ip_off,
                     !.has_bpf_get_func_ip = k.has_bpf_get_func_ip,
                     !.has_fexit_sleep_fix = k.has_fexit_sleep_fix,
                     !.has_fentry_protection = k.has_fentry_protection,
                     !.has_bpf_cookie = k.has_bpf_cookie,
                     !.has_kprobe_multi = k.has_kprobe_multi],
          ret |-> "0", loaded |-> TRUE, destroyed |-> TRUE]

\* returns [att, ret, loaded, destroyed]: loaded/destroyed tell whether the
\* calibration skeleton was loaded and whether it was destroyed again
calibrate_features(a, k) ==
    IF ~k.load_ok
    THEN [att |-> a, ret |-> "-EFAULT", loaded |-> FALSE, destroyed |-> FALSE]
    ELSE IF ~k.attach_ok
    THEN [att |-> a, ret |-> "-EFAULT", loaded |-> TRUE, destroyed |-> TRUE]
    ELSE IF ~k.has_bpf_get_func_ip /\ k.kret_ip_off = 0
    THEN [att |-> a, ret |-> "-EFAULT", loaded |-> TRUE, destroyed |-> FALSE]
    ELSE [att |-> [a EXCEPT
                     !.kret_ip_off = k.kret_ip_off,
                     !.has_bpf_get_func_ip = k.has_bpf_get_func_ip,
                     !.has_fexit_sleep_fix = k.has_fexit_sleep_fix,
                     !.has_fentry_protection = k.has_fentry_protection,
                     !.has_bpf_cookie = k.has_bpf_cookie,
                     !.has_kprobe_multi = k.has_kprobe_multi],
          ret |-> "0", loaded |-> TRUE, destroyed |-> TRUE]

(***************************************************************************)
(* The skeleton (struct SKEL_NAME) and the kernel's handle table.          *)
(***************************************************************************)
Progs ==
    {<<"kentry", 0>>, <<"kexit", 0>>}
    \cup ({"fentry", "fexit", "fexit_void"} \X ArgCnts)

\* the skeleton as opened by the caller: every program set to load
SkelOpened ==
    [ready |-> FALSE,
     rodata |-> [kret_ip_off |-> 0, has_fentry_protection |-> FALSE,
                 has_bpf_get_func_ip |-> FALSE, has_bpf_cookie |-> FALSE],
     autoload |-> [p \in Progs |-> TRUE],
     attach_target |-> [i \in ArgCnts |-> NullStr],
     kprobe_multi_type |-> FALSE,
     ip_to_id_max |-> 0,
     ip_to_id |-> {},
     loaded |-> FALSE,
     destroyed |-> 0]

\* a handle the kernel gave out: what it is, the FunctionRecord (C index)
\* it was acquired for (-1: the engine), how many times it was released
Handle(kind, owner) == [kind |-> kind, owner |-> owner, rel |-> 0]

\* a kernel call issued by load or attach
Call(op, dir, by, fn, name, num, items, cookies) ==
    [op |-> op, dir |-> dir, by |-> by, fn |-> fn, name |-> name,
     num |-> num, items |-> items, cookies |-> cookies]

(***************************************************************************)
(* mass_attacher__prepare, lines 365-419 and 446-505.                      *)
(***************************************************************************)
\* select_strategy without the test for the forced single-probe mode
select_strategy_ignores_forced_single(a) ==
    LET a1 == [a EXCEPT !.use_kprobe_multi =
                   /\ ~a.use_fentries
                   /\ a.has_kprobe_multi]
    IN  IF a1.use_fentries /\ ~a1.has_fexit_sleep_fix
        THEN deny_all(a1, sleepable_deny_globs, 1).att
        ELSE a1

\* lines 365-377: strategy selection and the conditional deny list
select_strategy(a) ==
    LET a1 == [a EXCEPT !.use_kprobe_multi =
                   /\ ~a.use_fentries
                   /\ a.has_kprobe_multi
                   /\ a.attach_mode # "KPROBE_SINGLE"]
    IN  IF a1.use_fentries /\ ~a1.has_fexit_sleep_fix
        THEN deny_all(a1, sleepable_deny_globs, 1).att
        ELSE a1

\* lines 379-382
set_rodata(sk, a) ==
    [sk EXCEPT !.rodata =
        [kret_ip_off |-> a.kret_ip_off,
         has_fentry_protection |-> a.has_fentry_protection,
         has_bpf_get_func_ip |-> a.has_bpf_get_func_ip,
         has_bpf_cookie |-> a.has_bpf_cookie]]

\* plan_programs without the else branch of lines 468-472: the templates of
\* empty buckets stay set to load
plan_programs_keeps_empty_buckets(sk, a) ==
    LET auto == IF a.use_fentries
                THEN [p \in Progs |->
                        IF p[1] \in {"kentry", "kexit"} THEN FALSE
                        ELSE sk.autoload[p]]
                ELSE [p \in Progs |->
                        IF p[1] \in {"kentry", "kexit"} THEN sk.autoload[p]
                        ELSE FALSE]
        target == IF a.use_fentries
                  THEN [i \in ArgCnts |->
                          IF a.func_info_cnts[i] # 0
                          THEN a.func_infos[a.func_info_id_for_arg_cnt[i] + 1].name
                          ELSE sk.attach_target[i]]
                  ELSE sk.attach_target
    IN  [sk EXCEPT
           !.autoload = auto,
           !.attach_target = target,
           !.kprobe_multi_type = (~a.use_fentries /\ a.use_kprobe_multi),
           !.ip_to_id_max = IF a.use_fentries \/ ~a.has_bpf_cookie
                            THEN a.func_cnt ELSE 1]

\* lines 451-482 and 500-504
plan_programs(sk, a) ==
    LET auto == IF a.use_fentries
                THEN [p \in Progs |->
                        IF p[1] \in {"kentry", "kexit"} THEN FALSE
                        ELSE IF a.func_info_cnts[p[2]] # 0 THEN sk.autoload[p]
                        ELSE FALSE]
                ELSE [p \in Progs |->
                        IF p[1] \in {"kentry", "kexit"} THEN sk.autoload[p]
                        ELSE FALSE]
        target == IF a.use_fentries
                  THEN [i \in ArgCnts |->
                          IF a.func_info_cnts[i] # 0
                          THEN a.func_infos[a.func_info_id_for_arg_cnt[i] + 1].name
                          ELSE sk.attach_target[i]]
                  ELSE sk.attach_target
    IN  [sk EXCEPT
           !.autoload = auto,
           !.attach_target = target,
           !.kprobe_multi_type = (~a.use_fentries /\ a.use_kprobe_multi),
           !.ip_to_id_max = IF a.use_fentries \/ ~a.has_bpf_cookie
                            THEN a.func_cnt ELSE 1]

\* the next FUNC type id at or after i, 0 when there is none
NextBtfFunc(i) ==
    LET ids == {j \in i..(btf__type_cnt - 1) : btf_is_func(btf__type_by_id(j))}
    IN  IF ids = {} THEN 0 ELSE CHOOSE j \in ids : \A k \in ids : j <= k

\* the next kprobe (C index) at or after i not marked used, -1 when none
NextUnusedKprobe(a, i) ==
    LET ids == {j \in i..(a.kprobe_cnt - 1) : ~a.kprobes[j + 1].used}
    IN  IF ids = {} THEN -1 ELSE CHOOSE j \in ids : \A k \in ids : j <= k

(***************************************************************************)
(* mass_attacher__load.  The world w is [att, skel, handles, calls]; the   *)
(* kernel's answers are the oracle o: whether the skeleton loads, and the  *)
(* FunctionRecord (fail_fn, a C index; func_cnt for none) and call         *)
(* (fail_op) at which a per-function kernel call fails.                    *)
(***************************************************************************)
LoadOps == {"map", "fentry", "fexit"}

\* bpf_map_update_elem(map_fd, &func_addr, &i, 0) on a map of max entries
map_rejects(sk, addr) ==
    /\ ~\E p \in sk.ip_to_id : p[1] = addr
    /\ Cardinality({p[1] : p \in sk.ip_to_id}) >= sk.ip_to_id_max

map_update(sk, addr, i) ==
    [sk EXCEPT !.ip_to_id = {p \in @ : p[1] # addr} \cup {<<addr, i>>}]

\* lines 803: whether load fills the address-to-index table
uses_ip_to_id(a) == a.use_fentries \/ ~a.has_bpf_cookie

\* lines 793-832, from FunctionRecord i on; returns [w, ret]
RECURSIVE load_funcs(_, _, _)
load_funcs(w, i, o) ==
    IF i >= w.att.func_cnt THEN [w |-> w, ret |-> "0"]
    ELSE
    LET fi == w.att.func_infos[i + 1]
        fails(op) == o.fail_fn = i /\ o.fail_op = op
        need_map == uses_ip_to_id(w.att)
        map_err == need_map /\ (fails("map") \/ map_rejects(w.skel, fi.addr))
        w1 == IF need_map
              THEN [w EXCEPT !.calls = Append(@,
                      Call("map_update", "", "", i, fi.name, fi.addr, <<>>, <<>>))]
              ELSE w
        w2 == IF need_map /\ ~map_err
              THEN [w1 EXCEPT !.skel = map_update(@, fi.addr, i)]
              ELSE w1
        w3 == [w2 EXCEPT !.calls = Append(@,
                  Call("clone", "fentry", "", i, fi.name, fi.btf_id,
                       <<fi.arg_cnt>>, <<>>))]
        w4 == [w3 EXCEPT
                 !.handles = Append(@, Handle("fentry_prog", i)),
                 !.att.func_infos[i + 1].fentry_prog_fd = Len(w3.handles) + 1]
        w5 == [w4 EXCEPT !.calls = Append(@,
                  Call("clone",
                       IF is_ret_void(fi.btf_id) THEN "fexit_void" ELSE "fexit",
                       "", i, fi.name, fi.btf_id, <<fi.arg_cnt>>, <<>>))]
        w6 == [w5 EXCEPT
                 !.handles = Append(@, Handle("fexit_prog", i)),
                 !.att.func_infos[i + 1].fexit_prog_fd = Len(w5.handles) + 1]
    IN
    IF map_err THEN [w |-> w1, ret |-> "-errno"]
    ELSE IF ~w.att.use_fentries THEN load_funcs(w2, i + 1, o)
    ELSE IF fails("fentry") THEN [w |-> w3, ret |-> "-errno"]
    ELSE IF fails("fexit") THEN [w |-> w5, ret |-> "-errno"]
    ELSE load_funcs(w6, i + 1, o)

\* lines 778-834, after cur_attacher was set; returns [w, ret]
mass_attacher__load(w, o) ==
    LET w1 == IF ~w.att.dry_run
              THEN [w EXCEPT !.calls = Append(@,
                      Call("skel_load", "", "", -1, <<>>, 0, <<>>, <<>>))]
              ELSE w
    IN
    IF ~w.att.dry_run /\ ~o.skel_ok THEN [w |-> w1, ret |-> "-errno"]
    ELSE IF w.att.dry_run THEN [w |-> w1, ret |-> "0"]
    ELSE load_funcs([w1 EXCEPT !.skel.loaded = TRUE], 0, o)

(***************************************************************************)
(* mass_attacher__attach.  The oracle o: the FunctionRecord (fail_fn) and  *)
(* direction (fail_op) at which an individual attach fails, and for the    *)
(* batched attach whether the kernel accepts the entry attach by address   *)
(* (entry_addrs), by name (entry_syms) and the exit attach (exit_ok).      *)
(***************************************************************************)
AttachOps == {"entry", "exit"}

\* lines 916-918: kprobe_opts is zero-initialised and the cookie is set
\* only when the kernel supports it
kprobe_cookie(a, i) == IF a.has_bpf_cookie THEN i ELSE 0

\* lines 874-950, from FunctionRecord i on; returns [w, ret]
RECURSIVE attach_funcs(_, _, _)
attach_funcs(w, i, o) ==
    IF i >= w.att.func_cnt THEN [w |-> w, ret |-> "0"]
    ELSE
    LET fi == w.att.func_infos[i + 1]
        fails(op) == o.fail_fn = i /\ o.fail_op = op
        \* trampoline
        t1 == [w EXCEPT !.calls = Append(@,
                  Call("raw_tracepoint_open", "entry", "", i, fi.name,
                       fi.fentry_prog_fd, <<>>, <<>>))]
        t2 == [t1 EXCEPT
                 !.handles = Append(@, Handle("fentry_link", i)),
                 !.att.func_infos[i + 1].fentry_link_fd = Len(t1.handles) + 1]
        t3 == [t2 EXCEPT !.calls = Append(@,
                  Call("raw_tracepoint_open", "exit", "", i, fi.name,
                       fi.fexit_prog_fd, <<>>, <<>>))]
        t4 == [t3 EXCEPT
                 !.handles = Append(@, Handle("fexit_link", i)),
                 !.att.func_infos[i + 1].fexit_link_fd = Len(t3.handles) + 1]
        \* one probe per function
        k1 == [w EXCEPT !.calls = Append(@,
                  Call("attach_kprobe", "entry", "", i, fi.name,
                       kprobe_cookie(w.att, i), <<>>, <<>>))]
        k2 == [k1 EXCEPT
                 !.handles = Append(@, Handle("kentry_link", i)),
                 !.att.func_infos[i + 1].kentry_link = Len(k1.handles) + 1]
        k3 == [k2 EXCEPT !.calls = Append(@,
                  Call("attach_kprobe", "exit", "", i, fi.name,
                       kprobe_cookie(w.att, i), <<>>, <<>>))]
        k4 == [k3 EXCEPT
                 !.handles = Append(@, Handle("kexit_link", i)),
                 !.att.func_infos[i + 1].kexit_link = Len(k3.handles) + 1]
    IN
    IF w.att.dry_run THEN attach_funcs(w, i + 1, o)
    ELSE IF w.att.use_fentries
    THEN IF fails("entry") THEN [w |-> t1, ret |-> "-errno"]
         ELSE IF fails("exit") THEN [w |-> t3, ret |-> "-errno"]
         ELSE attach_funcs(t4, i + 1, o)
    ELSE IF w.att.use_kprobe_multi THEN attach_funcs(w, i + 1, o)
    ELSE IF fails("entry") THEN [w |-> k1, ret |-> "-errno"]
         ELSE IF fails("exit") THEN [w |-> k3, ret |-> "-errno"]
         ELSE attach_funcs(k4, i + 1, o)

\* the addrs, syms and cookies arrays filled at lines 910-912
multi_addrs(a) == [i \in 1..a.func_cnt |-> a.func_infos[i].addr]
multi_syms(a) == [i \in 1..a.func_cnt |-> a.func_infos[i].name]
\* the cookies array filled with one-based positions
multi_cookies_one_based(a) == [i \in 1..a.func_cnt |-> i]

multi_cookies(a) == [i \in 1..a.func_cnt |-> i - 1]

MultiCall(dir, by, a) ==
    Call("attach_kprobe_multi", dir, by, -1, <<>>, a.func_cnt,
         IF by = "addrs" THEN multi_addrs(a) ELSE multi_syms(a),
         multi_cookies(a))

\* lines 952-996: the batched attach; returns [w, ret]
attach_multi(w, o) ==
    LET a == w.att
        \* entry by address
        e1 == [w EXCEPT !.calls = Append(@, MultiCall("entry", "addrs", a))]
        \* entry by name, the fallback
        e2 == [e1 EXCEPT !.calls = Append(@, MultiCall("entry", "syms", a))]
        by == IF o.entry_addrs THEN "addrs" ELSE "syms"
        e3 == IF o.entry_addrs THEN e1 ELSE e2
        e4 == [e3 EXCEPT
                 !.handles = Append(@, Handle("kentry_multi_link", -1)),
                 !.att.kentry_multi_link = Len(e3.handles) + 1]
        \* exit: one call, with multi_opts as the entry attach left it
        x1 == [e4 EXCEPT !.calls = Append(@, MultiCall("exit", by, a))]
        x2 == [x1 EXCEPT
                 !.handles = Append(@, Handle("kexit_multi_link", -1)),
                 !.att.kexit_multi_link = Len(x1.handles) + 1]
    IN
    IF ~o.entry_addrs /\ ~o.entry_syms THEN [w |-> e2, ret |-> "-errno"]
    ELSE IF ~o.exit_ok THEN [w |-> x1, ret |-> "-errno"]
    ELSE [w |-> x2, ret |-> "0"]

\* mass_attacher__attach with the dry-run test of line 952 dropped
mass_attacher__attach_multi_in_dry_run(w, o) ==
    LET r == attach_funcs(w, 0, o)
    IN  IF r.ret # "0" THEN r
        ELSE IF w.att.use_kprobe_multi THEN attach_multi(r.w, o)
        ELSE r

\* mass_attacher__attach going on to the batched attach and to the success
\* return after a per-function attach failed
mass_attacher__attach_ignores_failure(w, o) ==
    LET r == attach_funcs(w, 0, o)
    IN  IF ~w.att.dry_run /\ w.att.use_kprobe_multi
        THEN attach_multi(r.w, o)
        ELSE [w |-> r.w, ret |-> "0"]

\* returns [w, ret]
mass_attacher__attach(w, o) ==
    LET r == attach_funcs(w, 0, o)
    IN  IF r.ret # "0" THEN r
        ELSE IF ~w.att.dry_run /\ w.att.use_kprobe_multi
        THEN attach_multi(r.w, o)
        ELSE r

(***************************************************************************)
(* mass_attacher__free, lines 200-231: what the call releases, read from   *)
(* the engine's fields.                                                    *)
(***************************************************************************)
\* bpf_link__destroy() ignores NULL; close() is called for fds > 0
released_by_free(a) ==
    {h \in {a.kentry_multi_link, a.kexit_multi_link} : h # 0}
    \cup UNION {
        {h \in {a.func_infos[i].kentry_link, a.func_infos[i].kexit_link} :
            h # 0}
        \cup {h \in {a.func_infos[i].fentry_link_fd,
                     a.func_infos[i].fexit_link_fd} : h > 0}
        : i \in 1..a.func_cnt }

release(handles, hs) ==
    [h \in 1..Len(handles) |->
        IF h \in hs THEN [handles[h] EXCEPT !.rel = @ + 1] ELSE handles[h]]

\* lines 200-231 on world w
free_release(w) ==
    [w EXCEPT
       !.att.vmlinux_btf = FALSE,
       !.handles = release(@, released_by_free(w.att)),
       !.skel.destroyed = @ + 1]

(***************************************************************************)
(* The state machine.                                                      *)
(***************************************************************************)
VARIABLES
    att,            \* struct mass_attacher (stale contents once freed)
    skel,           \* the skeleton: ready flag, rodata, program settings
    handles,        \* the kernel's handle table, handle h at index h
    calls,          \* kernel calls issued by load and attach, in order
    fcalls,         \* invocations of the caller's func_filter, in order
    cand,           \* the candidate prepare_func evaluated last
    calib,          \* the calibration skeleton: none, loaded, destroyed
    cur_attacher,   \* TRUE iff the thread-local cur_attacher is non-NULL
    pc,             \* where the caller is
    idx,            \* loop position inside prepare
    ret,            \* last return value of each public operation
    nrules          \* allow_glob/deny_glob calls made by the caller

vars == <<att, skel, handles, calls, fcalls, cand, calib, cur_attacher,
          pc, idx, ret, nrules>>

World == [att |-> att, skel |-> skel, handles |-> handles, calls |-> calls]

NoCand == [name |-> NullStr, btf_id |-> 0, stage |-> "none", ret |-> "none"]

\* what the caller passes to allow_glob/deny_glob
GlobInputs == {NullStr, <<>>, <<"*", "*">>, <<"t", "*">>}
ModGlobInputs == {NullStr, <<>>, <<"m", "*">>, <<"*", "*">>}

Init ==
    /\ att = Calloc
    /\ skel = SkelOpened
    /\ handles = <<>>
    /\ calls = <<>>
    /\ fcalls = <<>>
    /\ cand = NoCand
    /\ calib = "none"
    /\ cur_attacher = FALSE
    /\ pc = "none"
    /\ idx = 0
    /\ ret = [glob |-> "none", prepare |-> "none", load |-> "none",
              attach |-> "none"]
    /\ nrules = 0

New(opts) ==
    /\ pc = "none"
    /\ att' = mass_attacher__new(opts)
    /\ pc' = "idle"
    /\ UNCHANGED <<skel, handles, calls, fcalls, cand, calib, cur_attacher,
                   idx, ret, nrules>>

\* the caller configures its rules between new and prepare
AllowGlob(glob, mod_glob) ==
    /\ pc = "idle" /\ ret.prepare = "none" /\ nrules < MaxUserRules
    /\ LET r == mass_attacher__allow_glob(att, glob, mod_glob)
       IN  /\ att' = r.att
           /\ ret' = [ret EXCEPT !.glob = r.ret]
    /\ nrules' = nrules + 1
    /\ UNCHANGED <<skel, handles, calls, fcalls, cand, calib, cur_attacher,
                   pc, idx>>

DenyGlob(glob, mod_glob) ==
    /\ pc = "idle" /\ ret.prepare = "none" /\ nrules < MaxUserRules
    /\ LET r == mass_attacher__deny_glob(att, glob, mod_glob)
       IN  /\ att' = r.att
           /\ ret' = [ret EXCEPT !.glob = r.ret]
    /\ nrules' = nrules + 1
    /\ UNCHANGED <<skel, handles, calls, fcalls, cand, calib, cur_attacher,
                   pc, idx>>

\* mass_attacher__prepare up to the enumeration loops (lines 338-421)
PrepareBegin(k) ==
    /\ pc = "idle" /\ ret.prepare = "none"
    /\ LET r == calibrate_features(att, k)
           a == load_available_kprobes(select_strategy(r.att))
       IN  /\ calib' = IF ~r.loaded THEN "none"
                       ELSE IF r.destroyed THEN "destroyed" ELSE "loaded"
           /\ IF r.ret # "0"
              THEN /\ ret' = [ret EXCEPT !.prepare = r.ret]
                   /\ UNCHANGED <<att, skel, pc, idx>>
              ELSE /\ att' = [a EXCEPT !.vmlinux_btf = TRUE]
                   /\ skel' = set_rodata(skel, a)
                   /\ pc' = "prepare_btf"
                   /\ idx' = NextBtfFunc(1)
                   /\ UNCHANGED ret
    /\ UNCHANGED <<handles, calls, fcalls, cand, cur_attacher, nrules>>

\* one iteration of the loop over the type metadata (lines 422-434) that
\* reaches prepare_func, with the non-function iterations before the next
PrepareBtf ==
    /\ pc = "prepare_btf" /\ idx # 0
    /\ LET t == btf__type_by_id(idx)
           r == prepare_func(att, t.name, t, idx)
           nxt == NextBtfFunc(idx + 1)
       IN  /\ att' = r.att
           /\ fcalls' = fcalls \o r.fcall
           /\ cand' = [name |-> t.name, btf_id |-> idx, stage |-> r.stage,
                       ret |-> r.ret]
           /\ IF r.ret # "0"
              THEN /\ ret' = [ret EXCEPT !.prepare = r.ret]
                   /\ pc' = "idle"
                   /\ idx' = idx
              ELSE /\ ret' = ret
                   /\ idx' = nxt
                   /\ pc' = IF nxt # 0 THEN "prepare_btf"
                            ELSE IF att.use_fentries THEN "prepare_end"
                            ELSE "prepare_kprobes"
    /\ UNCHANGED <<skel, handles, calls, calib, cur_attacher, nrules>>

\* one iteration of the loop over the kprobes (lines 435-444) that reaches
\* prepare_func, with the used entries skipped before it
PrepareKprobe ==
    /\ pc = "prepare_kprobes"
    /\ NextUnusedKprobe(att, idx) >= 0
    /\ LET i == NextUnusedKprobe(att, idx)
           name == att.kprobes[i + 1].name
           r == prepare_func(att, name, NoType, 0)
       IN  /\ att' = r.att
           /\ fcalls' = fcalls \o r.fcall
           /\ cand' = [name |-> name, btf_id |-> 0, stage |-> r.stage,
                       ret |-> r.ret]
           /\ IF r.ret # "0"
              THEN /\ ret' = [ret EXCEPT !.prepare = r.ret]
                   /\ pc' = "idle"
                   /\ idx' = idx
              ELSE /\ ret' = ret
                   /\ pc' = pc
                   /\ idx' = i + 1
    /\ UNCHANGED <<skel, handles, calls, calib, cur_attacher, nrules>>

\* the loops are over: lines 446-505
PrepareEnd ==
    /\ \/ pc = "prepare_end"
       \/ pc = "prepare_kprobes" /\ NextUnusedKprobe(att, idx) < 0
    /\ IF att.func_cnt = 0
       THEN /\ ret' = [ret EXCEPT !.prepare = "-ENOENT"]
            /\ skel' = skel
       ELSE /\ ret' = [ret EXCEPT !.prepare = "0"]
            /\ skel' = plan_programs(skel, att)
    /\ pc' = "idle"
    /\ idx' = 0
    /\ UNCHANGED <<att, handles, calls, fcalls, cand, calib, cur_attacher,
                   nrules>>

\* mass_attacher__load, line 776
LoadEnter ==
    /\ pc = "idle" /\ ret.prepare = "0" /\ ret.load = "none"
    /\ cur_attacher' = TRUE
    /\ pc' = "load"
    /\ UNCHANGED <<att, skel, handles, calls, fcalls, cand, calib, idx, ret,
                   nrules>>

\* mass_attacher__load returning on the load-failure path before the
\* thread-local is cleared
LoadRun_returns_before_clearing(o) ==
    /\ pc = "load"
    /\ LET r == mass_attacher__load(World, o)
       IN  /\ att' = r.w.att
           /\ skel' = r.w.skel
           /\ handles' = r.w.handles
           /\ calls' = r.w.calls
           /\ ret' = [ret EXCEPT !.load = r.ret]
           /\ cur_attacher' = (~att.dry_run /\ ~o.skel_ok)
    /\ pc' = "idle"
    /\ UNCHANGED <<fcalls, cand, calib, idx, nrules>>

\* mass_attacher__load, lines 778-834
LoadRun(o) ==
    /\ pc = "load"
    /\ LET r == mass_attacher__load(World, o)
       IN  /\ att' = r.w.att
           /\ skel' = r.w.skel
           /\ handles' = r.w.handles
           /\ calls' = r.w.calls
           /\ ret' = [ret EXCEPT !.load = r.ret]
    /\ cur_attacher' = FALSE
    /\ pc' = "idle"
    /\ UNCHANGED <<fcalls, cand, calib, idx, nrules>>

Attach(o) ==
    /\ pc = "idle" /\ ret.load = "0" /\ ret.attach = "none"
    /\ LET r == mass_attacher__attach(World, o)
       IN  /\ att' = r.w.att
           /\ skel' = r.w.skel
           /\ handles' = r.w.handles
           /\ calls' = r.w.calls
           /\ ret' = [ret EXCEPT !.attach = r.ret]
    /\ UNCHANGED <<fcalls, cand, calib, cur_attacher, pc, idx, nrules>>

\* mass_attacher__activate: no precondition in the code
Activate ==
    /\ pc = "idle"
    /\ skel' = [skel EXCEPT !.ready = TRUE]
    /\ UNCHANGED <<att, handles, calls, fcalls, cand, calib, cur_attacher,
                   pc, idx, ret, nrules>>

\* mass_attacher__free without the store to the ready flag
FreeEnter_keeps_ready ==
    /\ pc = "idle"
    /\ pc' = "free"
    /\ UNCHANGED <<att, skel, handles, calls, fcalls, cand, calib,
                   cur_attacher, idx, ret, nrules>>

\* mass_attacher__free, lines 197-198
FreeEnter ==
    /\ pc = "idle"
    /\ skel' = [skel EXCEPT !.ready = FALSE]
    /\ pc' = "free"
    /\ UNCHANGED <<att, handles, calls, fcalls, cand, calib, cur_attacher,
                   idx, ret, nrules>>

\* mass_attacher__free, lines 200-231
FreeRelease ==
    /\ pc = "free"
    /\ LET w == free_release(World)
       IN  /\ att' = w.att
           /\ skel' = w.skel
           /\ handles' = w.handles
    /\ pc' = "freed"
    /\ UNCHANGED <<calls, fcalls, cand, calib, cur_attacher, idx, ret,
                   nrules>>

\* mass_attacher__free on the freed instance: the engine's memory was
\* handed back at line 231 and nothing was reset, so the call reads freed
\* memory; it either faults or finds the old contents and runs again
FreeAgain(outcome) ==
    /\ pc = "freed"
    /\ IF outcome = "crash"
       THEN /\ pc' = "crashed"
            /\ UNCHANGED <<att, skel, handles>>
       ELSE /\ LET w == free_release([World EXCEPT !.skel.ready = FALSE])
               IN  /\ att' = w.att
                   /\ skel' = w.skel
                   /\ handles' = w.handles
            /\ pc' = "freed_twice"
    /\ UNCHANGED <<calls, fcalls, cand, calib, cur_attacher, idx, ret,
                   nrules>>

\* the kernel fails a per-function call at a record up to MaxFailFn, or
\* (fail_fn = func_cnt) at none
FailFns == {i \in 0..att.func_cnt : i <= MaxFailFn \/ i = att.func_cnt}

LoadOracles ==
    [skel_ok : BOOLEAN, fail_fn : FailFns, fail_op : LoadOps]

AttachOracles ==
    [fail_fn : FailFns, fail_op : AttachOps,
     entry_addrs : BOOLEAN, entry_syms : BOOLEAN, exit_ok : BOOLEAN]

Next ==
    \/ \E opts \in OptsInputs \cup {NoOpts} : New(opts)
    \/ \E g \in GlobInputs, m \in ModGlobInputs : AllowGlob(g, m)
    \/ \E g \in GlobInputs, m \in ModGlobInputs : DenyGlob(g, m)
    \/ \E k \in Kernels : PrepareBegin(k)
    \/ PrepareBtf
    \/ PrepareKprobe
    \/ PrepareEnd
    \/ LoadEnter
    \/ \E o \in LoadOracles : LoadRun(o)
    \/ \E o \in AttachOracles : Attach(o)
    \/ Activate
    \/ FreeEnter
    \/ FreeRelease
    \/ \E outcome \in {"stale", "crash"} : FreeAgain(outcome)

Spec == Init /\ [][Next]_vars

(***************************************************************************)
(* Vocabulary of the properties.                                           *)
(***************************************************************************)
Min(S) == CHOOSE i \in S : \A j \in S : i <= j

Resolved(name) == \E k \in Ksyms : k.name = name

ModuleOf(name) == (CHOOSE k \in Ksyms : k.name = name).module

\* the rules (1-based) of a list that match a resolved function
Hits(globs, name) ==
    {i \in 1..Len(globs) :
        full_glob_matches(globs[i].glob, globs[i].mod_glob,
                          name, ModuleOf(name))}

InIndex(a, name) == \E i \in 1..Len(a.kprobes) : a.kprobes[i].name = name

\* the handles C1 and C2 speak of
ProgKinds == {"fentry_prog", "fexit_prog"}
LinkKinds == {"fentry_link", "fexit_link", "kentry_link", "kexit_link"}
MultiKinds == {"kentry_multi_link", "kexit_multi_link"}

HandleIds == 1..Len(handles)

\* the candidate the next prepare_func call is made for
CurIsBtf == pc = "prepare_btf"
CurName ==
    IF CurIsBtf THEN btf__type_by_id(idx).name
    ELSE att.kprobes[NextUnusedKprobe(att, idx) + 1].name
CurType == IF CurIsBtf THEN btf__type_by_id(idx) ELSE NoType
CurBtfId == IF CurIsBtf THEN idx ELSE 0

PrepareStep == PrepareBtf \/ PrepareKprobe

\* the first stage, in the documented order, that skips the candidate;
\* "later" when none of the stages before the predicate does
FirstSkip(a, name, t) ==
    IF ~Resolved(name) THEN "symbol"
    ELSE IF Hits(a.deny_globs, name) # {} THEN "deny"
    ELSE IF a.allow_glob_cnt # 0 /\ Hits(a.allow_globs, name) = {} THEN "allow"
    ELSE IF ~InIndex(a, name) THEN "index"
    ELSE IF a.use_fentries /\ ~is_func_type_ok(t) THEN "proto"
    ELSE "later"

\* the candidate passes every filter stage, the predicate being asked the
\* way prepare_func asks it
PassesFilters(a, name, t, btf_id) ==
    /\ FirstSkip(a, name, t) = "later"
    /\ \/ a.func_filter = "NULL"
       \/ func_filter(a.func_filter,
                      filter_id_arg(a, IF a.allow_glob_cnt # 0
                                       THEN Min(Hits(a.allow_globs, name)) - 1
                                       ELSE -1, btf_id),
                      name, a.func_cnt)

(***************************************************************************)
(* C1. Teardown after any prefix of the pipeline leaves no acquired        *)
(* handle open: once mass_attacher__free has run, every cloned program     *)
(* instance, every per-function link and both batched links that were      *)
(* acquired have been released.  Refuted: the program fds stored by load   *)
(* in fentry_prog_fd/fexit_prog_fd are closed nowhere.                     *)
(***************************************************************************)
C1_TeardownReleasesEveryHandle ==
    pc = "freed" =>
        \A h \in HandleIds :
            handles[h].kind \in ProgKinds \cup LinkKinds \cup MultiKinds
                => handles[h].rel >= 1

(***************************************************************************)
(* C2. Teardown is idempotent: a second mass_attacher__free on the same    *)
(* instance is safe, it touches no released state and no handle is         *)
(* released twice.  Refuted: the second call reads the freed engine and    *)
(* either faults or releases everything once more.                         *)
(***************************************************************************)
C2_TeardownIdempotent ==
    /\ pc # "crashed"
    /\ skel.destroyed <= 1
    /\ \A h \in HandleIds : handles[h].rel <= 1

(***************************************************************************)
(* C3. Every instance returned by mass_attacher__new, whatever the         *)
(* options (none at all included), has the enforced deny patterns at the   *)
(* head of its deny list, and no FunctionRecord ever has a name matching   *)
(* an enforced pattern.  Refuted: with opts = NULL the constructor returns *)
(* before the enforced patterns are added.                                 *)
(***************************************************************************)
C3_EnforcedDenyAlwaysActive ==
    pc # "none" =>
        /\ \A i \in 1..Len(enforced_deny_globs) :
              /\ i <= att.deny_glob_cnt
              /\ att.deny_globs[i].glob = enforced_deny_globs[i]
              /\ att.deny_globs[i].mod_glob = NullStr
        /\ \A r \in 1..Len(att.func_infos) :
              \A i \in 1..Len(enforced_deny_globs) :
                  ~glob_matches(enforced_deny_globs[i], att.func_infos[r].name)

(***************************************************************************)
(* C4. With a non-zero maximum function count, func_cnt never exceeds it;  *)
(* and a candidate that passes every filter stage while func_cnt equals    *)
(* the maximum makes prepare_func return -E2BIG, which ends prepare with   *)
(* that error, and appends nothing.                                        *)
(***************************************************************************)
C4_CapacityStep ==
    /\ att'.max_func_cnt # 0 => att'.func_cnt <= att'.max_func_cnt
    /\ att'.func_cnt = Len(att'.func_infos)
    /\ ( /\ PrepareStep
         /\ att.max_func_cnt # 0
         /\ att.func_cnt = att.max_func_cnt
         /\ PassesFilters(att, CurName, CurType, CurBtfId) )
       => /\ ret'.prepare = "-E2BIG"
          /\ pc' = "idle"
          /\ att'.func_infos = att.func_infos
          /\ att'.func_cnt = att.func_cnt
          /\ att'.func_skip_cnt = att.func_skip_cnt

C4_CapacityRespected == [][C4_CapacityStep]_vars

\* prepare was ended by the capacity error with the table exactly full
C4_Witness ==
    /\ ret.prepare = "-E2BIG"
    /\ att.max_func_cnt # 0
    /\ att.func_cnt = att.max_func_cnt
    /\ cand.stage = "capacity"

(***************************************************************************)
(* C5. Every FunctionRecord was resolved in the symbol table, matches no   *)
(* deny rule, matches an allow rule if there is one, is in the probe-able  *)
(* index, has a compatible prototype in trampoline mode, and is accepted   *)
(* by the custom predicate if one is configured.  Refuted through C26:     *)
(* the predicate is asked about a rule-loop index instead of the           *)
(* candidate's type id, so records it rejects get in.                      *)
(***************************************************************************)
RecordPassedFilters(r) ==
    LET fi == att.func_infos[r]
    IN  /\ Resolved(fi.name)
        /\ Hits(att.deny_globs, fi.name) = {}
        /\ att.allow_glob_cnt # 0 => Hits(att.allow_globs, fi.name) # {}
        /\ InIndex(att, fi.name)
        /\ att.use_fentries =>
              /\ fi.btf_id # 0
              /\ is_func_type_ok(btf__type_by_id(fi.btf_id))

C5_RecordsPassedEveryFilter ==
    \A r \in 1..Len(att.func_infos) :
        /\ RecordPassedFilters(r)
        /\ att.func_filter # "NULL" =>
              func_filter(att.func_filter, att.func_infos[r].btf_id,
                          att.func_infos[r].name, r - 1)

(***************************************************************************)
(* C6. Each candidate goes through symbol resolution, deny, allow, index   *)
(* membership, prototype (trampoline only), predicate, capacity in that    *)
(* order, and the first stage that skips it is the last to have an         *)
(* effect: only a denied candidate bumps a deny counter (that of the first *)
(* matching rule, by one); an allow counter is bumped only for a candidate *)
(* that got past deny and allow; the index entry is marked only for a      *)
(* candidate that got to the index; the predicate is called, once, only    *)
(* for a candidate that got past the prototype stage, and the capacity     *)
(* error is returned only for one the predicate accepted.  This holds at   *)
(* every position of the enumeration.                                      *)
(***************************************************************************)
C6_StagesStep ==
    PrepareStep =>
      LET name == CurName
          st == FirstSkip(att, name, CurType)
          past_allow == st \in {"index", "proto", "later"}
      IN  /\ (att'.deny_globs # att.deny_globs) <=> st = "deny"
          /\ st = "deny" =>
                att'.deny_globs =
                    [att.deny_globs EXCEPT
                        ![Min(Hits(att.deny_globs, name))].matches = @ + 1]
          /\ (att'.allow_globs # att.allow_globs)
                <=> (past_allow /\ att.allow_glob_cnt # 0)
          /\ (past_allow /\ att.allow_glob_cnt # 0) =>
                att'.allow_globs =
                    [att.allow_globs EXCEPT
                        ![Min(Hits(att.allow_globs, name))].matches = @ + 1]
          /\ st \in {"symbol", "deny", "allow", "index"} =>
                att'.kprobes = att.kprobes
          /\ st \in {"proto", "later"} =>
                \E i \in 1..Len(att'.kprobes) :
                    att'.kprobes[i].name = name /\ att'.kprobes[i].used
          /\ (fcalls' # fcalls)
                <=> (st = "later" /\ att.func_filter # "NULL")
          /\ (st = "later" /\ att.func_filter # "NULL") =>
                /\ Len(fcalls') = Len(fcalls) + 1
                /\ fcalls'[Len(fcalls')].name = name
          /\ st # "later" =>
                /\ att'.func_skip_cnt = att.func_skip_cnt + 1
                /\ att'.func_infos = att.func_infos
                /\ ret'.prepare = "none"
          /\ ret'.prepare = "-E2BIG" =>
                \/ att.func_filter = "NULL"
                \/ LET fc == fcalls'[Len(fcalls')]
                   IN  func_filter(att.func_filter, fc.id, fc.name, fc.idx)

C6_StagesInOrder == [][C6_StagesStep]_vars

\* a candidate that a deny rule and an allow rule both match was skipped
\* by the deny stage, late in the enumeration
C6_Witness ==
    /\ cand.stage = "deny"
    /\ att.allow_glob_cnt # 0
    /\ Hits(att.allow_globs, cand.name) # {}
    /\ att.func_cnt > 0

(***************************************************************************)
(* C7. In batched mode, in each direction, a rejected address-based batch  *)
(* attach is followed by exactly one name-based batch attach of the same   *)
(* set, and mass_attacher__attach fails only after that fallback failed    *)
(* too.  Refuted: the exit direction is attached once, with the options    *)
(* the entry direction ended with; rejected by address, it has no          *)
(* fallback.                                                               *)
(***************************************************************************)
C7_FallbackBeforeFailure ==
    ( /\ att.use_kprobe_multi
      /\ ~att.dry_run
      /\ ret.attach \notin {"none", "0"}
      /\ pc = "idle" )
    => LET last == calls[Len(calls)]
           same == {i \in 1..Len(calls) :
                       /\ calls[i].op = "attach_kprobe_multi"
                       /\ calls[i].dir = last.dir}
       IN  /\ last.op = "attach_kprobe_multi"
           /\ last.by = "syms"
           /\ last.items = multi_syms(att)
           /\ Cardinality({i \in same : calls[i].by = "syms"}) = 1

(***************************************************************************)
(* C8. Over any sequence of public operations the ready flag is true only  *)
(* if mass_attacher__attach has returned success on the instance.          *)
(* Refuted: mass_attacher__activate sets the flag unconditionally.         *)
(***************************************************************************)
C8_ReadyOnlyAfterAttach ==
    skel.ready => ret.attach = "0"

(***************************************************************************)
(* C9. Teardown clears the ready flag before it releases the first link    *)
(* or program handle: in no state is ready true while a handle of the      *)
(* instance, or the skeleton, has been released.                           *)
(***************************************************************************)
C9_ReadyClearedBeforeRelease ==
    skel.ready =>
        /\ skel.destroyed = 0
        /\ \A h \in HandleIds : handles[h].rel = 0

\* teardown of a successfully attached instance has released its links
C9_Witness ==
    /\ pc = "freed"
    /\ ret.attach = "0"
    /\ ~skel.ready
    /\ \E h \in HandleIds : handles[h].rel = 1

(***************************************************************************)
(* C10. With dry_run set, load and attach return success, issue no kernel  *)
(* call (skeleton load, map update, clone, attach) and leave every         *)
(* per-function handle field and both batched links unset.                 *)
(***************************************************************************)
C10_DryRunTouchesNothing ==
    att.dry_run =>
        /\ ret.load \in {"none", "0"}
        /\ ret.attach \in {"none", "0"}
        /\ calls = <<>>
        /\ handles = <<>>
        /\ skel.ip_to_id = {}
        /\ ~skel.loaded
        /\ att.kentry_multi_link = 0 /\ att.kexit_multi_link = 0
        /\ \A r \in 1..Len(att.func_infos) :
              LET fi == att.func_infos[r]
              IN  /\ fi.fentry_prog_fd = 0 /\ fi.fexit_prog_fd = 0
                  /\ fi.fentry_link_fd = 0 /\ fi.fexit_link_fd = 0
                  /\ fi.kentry_link = 0 /\ fi.kexit_link = 0

\* a dry run of the batched strategy went through load and attach
C10_Witness ==
    /\ att.dry_run
    /\ att.use_kprobe_multi
    /\ att.func_cnt > 0
    /\ ret.load = "0"
    /\ ret.attach = "0"

(***************************************************************************)
(* C11. In trampoline mode every FunctionRecord has between 0 and 6        *)
(* arguments, none of them the variadic marker, each of them - modifiers   *)
(* and typedefs stripped - an integer, an enum or a pointer, and returns   *)
(* void, an integer or enum, or a pointer to void, a struct or a union;    *)
(* its recorded arg_cnt is the number of parameters, so every index into   *)
(* the per-arity arrays is within 0..6.                                    *)
(***************************************************************************)
\* the kinds met on the way from type id down to the first type that is
\* neither a modifier nor a typedef (id 0 is void)
RECURSIVE StrippedId(_)
StrippedId(id) ==
    IF id = 0 THEN 0
    ELSE IF Btf[id].kind \in {"const", "volatile", "restrict", "typedef"}
    THEN StrippedId(Btf[id].type)
    ELSE id

KindOf(id) == IF id = 0 THEN "void" ELSE Btf[id].kind

ProtoOf(btf_id) == Btf[Btf[btf_id].type]

C11_TrampolineRecordsCompatible ==
    att.use_fentries =>
        \A r \in 1..Len(att.func_infos) :
            LET fi == att.func_infos[r]
                proto == ProtoOf(fi.btf_id)
                rid == StrippedId(proto.type)
            IN  /\ fi.btf_id # 0
                /\ fi.arg_cnt = Len(proto.params)
                /\ fi.arg_cnt \in 0..6
                /\ fi.arg_cnt \in DOMAIN att.func_info_cnts
                /\ fi.arg_cnt \in DOMAIN att.func_info_id_for_arg_cnt
                /\ \A p \in 1..Len(proto.params) :
                      /\ proto.params[p] # 0
                      /\ KindOf(StrippedId(proto.params[p]))
                            \in {"int", "enum", "enum64", "ptr"}
                /\ \/ proto.type = 0
                   \/ KindOf(rid) \in {"int", "enum", "enum64"}
                   \/ /\ KindOf(rid) = "ptr"
                      /\ KindOf(StrippedId(Btf[rid].type))
                            \in {"void", "struct", "union"}

\* a trampoline-mode prepare ran over the whole type metadata, accepted the
\* two-argument function and the one returning a qualified struct pointer,
\* and skipped others
C11_Witness ==
    /\ att.use_fentries
    /\ ret.prepare = "0"
    /\ \E r \in 1..Len(att.func_infos) : att.func_infos[r].arg_cnt = 2
    /\ \E r \in 1..Len(att.func_infos) : att.func_infos[r].name = <<"t", "q">>
    /\ att.func_skip_cnt > 0

(***************************************************************************)
(* C12. The prototype stage skips a candidate only in trampoline mode: a   *)
(* candidate with an incompatible prototype and no other defect (resolved, *)
(* not denied, allowed, in the index, accepted by the predicate as         *)
(* prepare_func asks it, capacity not reached) is skipped when             *)
(* use_fentries is set and is appended as a FunctionRecord when it is not  *)
(* (single-probe and batched strategies alike); and in the generic modes   *)
(* every candidate without other defect is appended whatever its           *)
(* prototype.                                                              *)
(***************************************************************************)
\* the compatibility conditions of the specification, over the type table
ProtoCompatible(btf_id) ==
    LET proto == ProtoOf(btf_id)
        rid == StrippedId(proto.type)
    IN  /\ Len(proto.params) <= 6
        /\ \A p \in 1..Len(proto.params) :
              /\ proto.params[p] # 0
              /\ KindOf(StrippedId(proto.params[p]))
                    \in {"int", "enum", "enum64", "ptr"}
        /\ \/ proto.type = 0
           \/ KindOf(rid) \in {"int", "enum", "enum64"}
           \/ /\ KindOf(rid) = "ptr"
              /\ KindOf(Btf[rid].type) \in {"void", "struct", "union"}

\* no stage other than the prototype stage stops the candidate
NoOtherDefect(a, name, btf_id) ==
    /\ Resolved(name)
    /\ Hits(a.deny_globs, name) = {}
    /\ a.allow_glob_cnt # 0 => Hits(a.allow_globs, name) # {}
    /\ InIndex(a, name)
    /\ \/ a.func_filter = "NULL"
       \/ func_filter(a.func_filter,
                      filter_id_arg(a, IF a.allow_glob_cnt # 0
                                       THEN Min(Hits(a.allow_globs, name)) - 1
                                       ELSE -1, btf_id),
                      name, a.func_cnt)
    /\ ~(a.max_func_cnt # 0 /\ a.func_cnt >= a.max_func_cnt)

StepSkipped ==
    /\ att'.func_infos = att.func_infos
    /\ att'.func_cnt = att.func_cnt
    /\ att'.func_skip_cnt = att.func_skip_cnt + 1
    /\ ret'.prepare = "none"

StepAccepted(name, btf_id) ==
    /\ Len(att'.func_infos) = Len(att.func_infos) + 1
    /\ SubSeq(att'.func_infos, 1, Len(att.func_infos)) = att.func_infos
    /\ att'.func_infos[Len(att'.func_infos)].name = name
    /\ att'.func_infos[Len(att'.func_infos)].btf_id = btf_id
    /\ att'.func_cnt = att.func_cnt + 1
    /\ att'.func_skip_cnt = att.func_skip_cnt
    /\ ret'.prepare = "none"

C12_ProtoStep ==
    (PrepareStep /\ NoOtherDefect(att, CurName, CurBtfId)) =>
        IF att.use_fentries /\ ~ProtoCompatible(CurBtfId)
        THEN StepSkipped
        ELSE StepAccepted(CurName, CurBtfId)

C12_ProtoSkipsOnlyInTrampolineMode == [][C12_ProtoStep]_vars

\* a generic-mode prepare (batched strategy) accepted the function returning
\* a pointer to a scalar and the seven-argument function
C12_Witness ==
    /\ ~att.use_fentries
    /\ att.use_kprobe_multi
    /\ \E r \in 1..Len(att.func_infos) :
          /\ att.func_infos[r].name = <<"t", "p">>
          /\ att.func_infos[r].btf_id # 0
    /\ \E r \in 1..Len(att.func_infos) : att.func_infos[r].arg_cnt = 7

(***************************************************************************)
(* C13. One run of prepare skips a function that a deny rule is the first  *)
(* to match and counts it once: when the enumeration is over, the match    *)
(* counter of each deny rule is the number of candidate functions it was   *)
(* the first rule to match, in every mode.  Refuted: in the generic modes  *)
(* a function denied in the pass over the type metadata is not marked in   *)
(* the probe-able index, so the second pass meets it again and counts it   *)
(* a second time.                                                          *)
(***************************************************************************)
\* the names prepare enumerates
Candidates(a) ==
    {Btf[i].name : i \in {j \in 1..Len(Btf) : Btf[j].kind = "func"}}
    \cup (IF a.use_fentries THEN {}
          ELSE {a.kprobes[i].name : i \in 1..Len(a.kprobes)})

FirstDenied(a, i) ==
    {n \in Candidates(a) :
        /\ Resolved(n)
        /\ Hits(a.deny_globs, n) # {}
        /\ Min(Hits(a.deny_globs, n)) = i}

C13_DenyCounterCountsOnce ==
    ret.prepare \in {"0", "-ENOENT"} =>
        /\ \A i \in 1..att.deny_glob_cnt :
              att.deny_globs[i].matches = Cardinality(FirstDenied(att, i))
        /\ \A r \in 1..Len(att.func_infos) :
              Hits(att.deny_globs, att.func_infos[r].name) = {}

(***************************************************************************)
(* C14. When the kernel fails an individual attach call - the entry or     *)
(* exit attach of function k in trampoline or single-probe mode, or a      *)
(* batched attach that has no further fallback - mass_attacher__attach     *)
(* returns an error, the failed call is the last call it issued (no attach *)
(* call for a function after k), and every link acquired before the        *)
(* failure is recorded in the engine where mass_attacher__free finds it.   *)
(***************************************************************************)
\* the kernel's answers o make some attach call of this run fail
KernelFailsAttach(a, o) ==
    /\ ~a.dry_run
    /\ IF a.use_kprobe_multi
       THEN (~o.entry_addrs /\ ~o.entry_syms) \/ ~o.exit_ok
       ELSE o.fail_fn < a.func_cnt

\* the kernel answers that differ in a part the strategy in use asks for
RelevantAttachOracles ==
    {o \in AttachOracles :
        IF att.use_kprobe_multi
        THEN o.fail_fn = att.func_cnt /\ o.fail_op = "entry"
        ELSE o.entry_addrs /\ o.entry_syms /\ o.exit_ok}

C14_AttachStep ==
    ret'.attach # ret.attach =>
    \A o \in RelevantAttachOracles :
        (KernelFailsAttach(att, o) /\ Attach(o)) =>
            LET last == calls'[Len(calls')]
            IN  /\ ret'.attach \notin {"0", "none"}
                /\ Len(calls') > Len(calls)
                /\ SubSeq(calls', 1, Len(calls)) = calls
                /\ ~att.use_kprobe_multi =>
                      /\ last.fn = o.fail_fn
                      /\ last.dir = o.fail_op
                      /\ last.op \in {"raw_tracepoint_open", "attach_kprobe"}
                      /\ \A c \in (Len(calls) + 1)..Len(calls') :
                            calls'[c].fn <= o.fail_fn
                /\ att.use_kprobe_multi =>
                      last.op = "attach_kprobe_multi"
                /\ \A h \in 1..Len(handles') :
                      handles'[h].kind \in LinkKinds \cup MultiKinds
                          => h \in released_by_free(att')
                /\ att'.func_cnt = att.func_cnt

C14_AttachFailureAborts == [][C14_AttachStep]_vars

\* a trampoline-mode attach failed at the exit attach of the second of more
\* than two functions, after links were acquired for the first
C14_Witness ==
    /\ att.use_fentries
    /\ ret.attach \notin {"0", "none"}
    /\ att.func_cnt > 2
    /\ calls[Len(calls)].fn = 1
    /\ calls[Len(calls)].dir = "exit"
    /\ \E h \in HandleIds : handles[h].kind = "fexit_link" /\ handles[h].owner = 0
    /\ \E h \in HandleIds : handles[h].kind = "fentry_link" /\ handles[h].owner = 1

(***************************************************************************)
(* C15. prepare returns -E2BIG only with a non-zero maximum that func_cnt  *)
(* has reached exactly, from a prepare_func call that leaves the           *)
(* FunctionRecords as they were; it returns -ENOENT only once both         *)
(* enumerations are over with func_cnt = 0; and the FunctionRecords are    *)
(* always in discovery order (type ids ascending, then the names of the    *)
(* probe-able index in its order), after a capacity error included.        *)
(***************************************************************************)
\* the records are in the order the two passes discover them
InDiscoveryOrder(infos) ==
    \A r, q \in 1..Len(infos) :
        r < q =>
            \/ infos[r].btf_id # 0 /\ infos[q].btf_id = 0
            \/ /\ infos[r].btf_id # 0 /\ infos[q].btf_id # 0
               /\ infos[r].btf_id < infos[q].btf_id
            \/ /\ infos[r].btf_id = 0 /\ infos[q].btf_id = 0
               /\ strcmp(infos[r].name, infos[q].name) <= 0

\* nothing is left for either loop of prepare to enumerate
EnumerationOver ==
    \/ pc = "prepare_end"
    \/ pc = "prepare_kprobes" /\ NextUnusedKprobe(att, idx) < 0

C15_ErrorStep ==
    /\ ret'.prepare = "-E2BIG" =>
          /\ att'.max_func_cnt # 0
          /\ att'.func_cnt = att'.max_func_cnt
          /\ Len(att'.func_infos) = att'.func_cnt
          /\ att'.func_infos = att.func_infos
          /\ ret.prepare = "none" => PrepareStep
    /\ ret'.prepare = "-ENOENT" =>
          /\ att'.func_cnt = 0
          /\ att'.func_infos = <<>>
          /\ ret.prepare = "none" => EnumerationOver
    /\ InDiscoveryOrder(att'.func_infos)

C15_WitnessEmpty ==
    /\ ret.prepare = "-ENOENT"
    /\ att.max_func_cnt # 0
    /\ att.func_skip_cnt > 0

(***************************************************************************)
(* C16. calibrate_features returns an error, which prepare returns in      *)
(* turn, if and only if the calibration probes failed to load or attach,   *)
(* or they report neither the direct return-IP helper nor a non-zero       *)
(* return-IP offset; no combination of the other four features makes it    *)
(* fail; and on success the engine's six feature fields are the reported   *)
(* values.                                                                 *)
(***************************************************************************)
\* every answer the calibration probes can give
AllKernels ==
    [load_ok : BOOLEAN, attach_ok : BOOLEAN, kret_ip_off : {0, 8},
     has_bpf_get_func_ip : BOOLEAN, has_fexit_sleep_fix : BOOLEAN,
     has_fentry_protection : BOOLEAN, has_bpf_cookie : BOOLEAN,
     has_kprobe_multi : BOOLEAN]

CalibrationMustFail(k) ==
    \/ ~k.load_ok
    \/ ~k.attach_ok
    \/ ~k.has_bpf_get_func_ip /\ k.kret_ip_off = 0

FeatureSet(a) ==
    [kret_ip_off |-> a.kret_ip_off,
     has_bpf_get_func_ip |-> a.has_bpf_get_func_ip,
     has_fexit_sleep_fix |-> a.has_fexit_sleep_fix,
     has_fentry_protection |-> a.has_fentry_protection,
     has_bpf_cookie |-> a.has_bpf_cookie,
     has_kprobe_multi |-> a.has_kprobe_multi]

C16_CalibrationStep ==
    (\E k0 \in Kernels : PrepareBegin(k0)) =>
        /\ \A k \in AllKernels :
              LET r == calibrate_features(att, k)
              IN  /\ (r.ret # "0") <=> CalibrationMustFail(k)
                  /\ r.ret = "0" =>
                        FeatureSet(r.att) = FeatureSet([k EXCEPT !.load_ok = TRUE])
        /\ \A k \in Kernels :
              PrepareBegin(k) =>
                  IF CalibrationMustFail(k)
                  THEN /\ ret'.prepare \notin {"0", "none"}
                       /\ pc' = "idle"
                       /\ att' = att
                  ELSE /\ ret'.prepare = "none"
                       /\ pc' = "prepare_btf"
                       /\ FeatureSet(att') = FeatureSet([k EXCEPT !.load_ok = TRUE])

C16_CalibrationFailsIffNoReturnIp == [][C16_CalibrationStep]_vars

\* prepare went on with a kernel that offers the return-IP offset and none
\* of the optional features
C16_Witness ==
    /\ att.vmlinux_btf
    /\ att.kret_ip_off = 8
    /\ ~att.has_bpf_get_func_ip
    /\ ~att.has_fexit_sleep_fix
    /\ ~att.has_fentry_protection
    /\ ~att.has_bpf_cookie
    /\ ~att.has_kprobe_multi
    /\ ret.prepare = "0"

(***************************************************************************)
(* C17. Every rule of the allow list and of the deny list has a name       *)
(* pattern that is neither empty nor "**", and a module pattern that is    *)
(* absent or neither empty nor "**"; and a call of                         *)
(* mass_attacher__allow_glob or mass_attacher__deny_glob with a NULL,      *)
(* empty or "**" name pattern, or with an empty or "**" module pattern,    *)
(* returns -EINVAL and leaves the engine - both lists, their counts, all   *)
(* match counters - as it was.                                             *)
(***************************************************************************)
BadPattern(g) == g = <<>> \/ g = <<"*", "*">>

RuleWellFormed(rule) ==
    /\ rule.glob # NullStr
    /\ ~BadPattern(rule.glob)
    /\ rule.mod_glob # NullStr => ~BadPattern(rule.mod_glob)

InvalidGlobCall(g, m) ==
    \/ g = NullStr
    \/ BadPattern(g)
    \/ m # NullStr /\ BadPattern(m)

C17_GlobStep ==
    /\ \A i \in 1..Len(att'.allow_globs) : RuleWellFormed(att'.allow_globs[i])
    /\ \A i \in 1..Len(att'.deny_globs) : RuleWellFormed(att'.deny_globs[i])
    /\ Len(att'.allow_globs) = att'.allow_glob_cnt
    /\ Len(att'.deny_globs) = att'.deny_glob_cnt
    /\ nrules' # nrules =>
          \A g \in GlobInputs, m \in ModGlobInputs :
              ((AllowGlob(g, m) \/ DenyGlob(g, m)) /\ InvalidGlobCall(g, m)) =>
                  /\ ret'.glob = "-EINVAL"
                  /\ att' = att

C17_OnlyValidGlobsStored == [][C17_GlobStep]_vars

\* a call with an invalid pattern was rejected and the lists hold only the
\* built-in rules
C17_Witness ==
    /\ ret.glob = "-EINVAL"
    /\ nrules > 0
    /\ att.allow_glob_cnt = 0
    /\ att.deny_glob_cnt = Len(enforced_deny_globs)
    /\ pc = "idle"

(***************************************************************************)
(* C18. The strategy is a function of the configured mode and the          *)
(* calibrated batched-probe flag: trampoline iff MASS_ATTACH_FENTRY was    *)
(* requested; otherwise batched iff the kernel has batched probes and      *)
(* MASS_ATTACH_KPROBE_SINGLE was not requested; otherwise single-probe.    *)
(* Trampoline and batched are never selected together, the kernel calls    *)
(* of attach are those of the selected strategy, and no operation after    *)
(* the start of prepare changes the selection.                             *)
(***************************************************************************)
Strategy(a) ==
    IF a.use_fentries THEN "TRAMPOLINE"
    ELSE IF a.use_kprobe_multi THEN "BATCHED_PROBE"
    ELSE "SINGLE_PROBE"

ExpectedStrategy(a) ==
    IF a.attach_mode = "FENTRY" THEN "TRAMPOLINE"
    ELSE IF a.has_kprobe_multi /\ a.attach_mode # "KPROBE_SINGLE"
    THEN "BATCHED_PROBE"
    ELSE "SINGLE_PROBE"

C18_StrategyStep ==
    /\ Strategy(att') = ExpectedStrategy(att')
    /\ ~(att'.use_fentries /\ att'.use_kprobe_multi)
    /\ \A c \in 1..Len(calls') :
          /\ calls'[c].op \in {"raw_tracepoint_open", "clone"}
                => Strategy(att') = "TRAMPOLINE"
          /\ calls'[c].op = "attach_kprobe_multi"
                => Strategy(att') = "BATCHED_PROBE"
          /\ calls'[c].op = "attach_kprobe"
                => Strategy(att') = "SINGLE_PROBE"
    /\ ret'.prepare = "0" =>
          (skel'.kprobe_multi_type <=> Strategy(att') = "BATCHED_PROBE")
    /\ (pc # "none" /\ ~\E k \in Kernels : PrepareBegin(k)) =>
          /\ att'.use_fentries = att.use_fentries
          /\ att'.use_kprobe_multi = att.use_kprobe_multi
          /\ att'.attach_mode = att.attach_mode
          /\ att'.has_kprobe_multi = att.has_kprobe_multi

C18_StrategyFixedByModeAndKernel == [][C18_StrategyStep]_vars

\* single-probe mode was forced on a kernel with batched probes and the
\* functions were attached one by one
C18_Witness ==
    /\ att.attach_mode = "KPROBE_SINGLE"
    /\ att.has_kprobe_multi
    /\ ~att.use_kprobe_multi
    /\ ret.attach = "0"
    /\ \E c \in 1..Len(calls) : calls[c].op = "attach_kprobe"

\* the batched strategy was selected and used
C18_WitnessBatched ==
    /\ att.attach_mode = "KPROBE"
    /\ att.use_kprobe_multi
    /\ ret.attach = "0"
    /\ \E c \in 1..Len(calls) : calls[c].op = "attach_kprobe_multi"

(***************************************************************************)
(* C19. After a successful prepare in trampoline mode the entry, exit and  *)
(* void-exit templates of arity i, for each i in 0..6, are set to load iff *)
(* some FunctionRecord has exactly i arguments, and the two generic probe  *)
(* programs are not; in the generic modes none of the 21 templates is set  *)
(* to load and the generic pair is.                                        *)
(***************************************************************************)
Templates == {"fentry", "fexit", "fexit_void"}

BucketPopulated(a, i) ==
    \E r \in 1..Len(a.func_infos) : a.func_infos[r].arg_cnt = i

C19_AutoloadFollowsBuckets ==
    ret.prepare = "0" =>
        IF att.use_fentries
        THEN /\ \A i \in 0..6 : \A tmpl \in Templates :
                   skel.autoload[<<tmpl, i>>] <=> BucketPopulated(att, i)
             /\ ~skel.autoload[<<"kentry", 0>>]
             /\ ~skel.autoload[<<"kexit", 0>>]
        ELSE /\ \A i \in 0..6 : \A tmpl \in Templates :
                   ~skel.autoload[<<tmpl, i>>]
             /\ skel.autoload[<<"kentry", 0>>]
             /\ skel.autoload[<<"kexit", 0>>]

\* a trampoline-mode prepare left two buckets populated and bucket 0 empty
C19_Witness ==
    /\ ret.prepare = "0"
    /\ att.use_fentries
    /\ BucketPopulated(att, 1)
    /\ BucketPopulated(att, 2)
    /\ ~BucketPopulated(att, 0)
    /\ skel.autoload[<<"fexit_void", 1>>]
    /\ ~skel.autoload[<<"fentry", 0>>]

(***************************************************************************)
(* C20. When the address-to-index table is in use (trampoline mode, or no  *)
(* opaque tags), a successful load that is not a dry run leaves the table  *)
(* mapping the address of FunctionRecord i to i for every i; and load      *)
(* writes the table only when prepare sized it to the function count,      *)
(* never when it was sized to one entry.  Refuted through C23: the second  *)
(* enumeration pass gives a function accepted in the first pass a second   *)
(* FunctionRecord with the same address, whose table entry replaces the    *)
(* first record's.                                                         *)
(***************************************************************************)
TableInUse(a) == a.use_fentries \/ ~a.has_bpf_cookie

TableWrites == {c \in 1..Len(calls) : calls[c].op = "map_update"}

C20_TableMapsAddressToIndex ==
    /\ (TableInUse(att) /\ ~att.dry_run /\ ret.load = "0") =>
          \A r \in 1..Len(att.func_infos) :
              /\ <<att.func_infos[r].addr, r - 1>> \in skel.ip_to_id
              /\ \A p \in skel.ip_to_id :
                    p[1] = att.func_infos[r].addr => p[2] = r - 1
    /\ TableWrites # {} =>
          /\ TableInUse(att)
          /\ skel.ip_to_id_max = att.func_cnt
    /\ (ret.prepare = "0" /\ ~TableInUse(att)) =>
          /\ skel.ip_to_id_max = 1
          /\ skel.ip_to_id = {}

(***************************************************************************)
(* C21. The opaque tag passed to the kernel for FunctionRecord i is i.     *)
(* Every batched attach call, of either direction, covers func_cnt         *)
(* positions, position i carrying the address of record i (the name, in a  *)
(* call made by name) and the tag i; every single-probe attach call made   *)
(* with tag support, entry or exit, of record i carries the tag i.         *)
(***************************************************************************)
C21_TagIsRecordIndex ==
    \A c \in 1..Len(calls) :
        LET call == calls[c]
        IN  /\ call.op = "attach_kprobe_multi" =>
                  /\ call.num = att.func_cnt
                  /\ Len(call.items) = att.func_cnt
                  /\ Len(call.cookies) = att.func_cnt
                  /\ call.by \in {"addrs", "syms"}
                  /\ \A i \in 1..att.func_cnt :
                        /\ call.cookies[i] = i - 1
                        /\ call.by = "addrs" =>
                              call.items[i] = att.func_infos[i].addr
                        /\ call.by = "syms" =>
                              call.items[i] = att.func_infos[i].name
            /\ (call.op = "attach_kprobe" /\ att.has_bpf_cookie) =>
                  /\ call.num = call.fn
                  /\ call.name = att.func_infos[call.fn + 1].name

\* a batched attach succeeded through the name-based fallback
C21_Witness ==
    /\ att.use_kprobe_multi
    /\ ret.attach = "0"
    /\ att.func_cnt >= 2
    /\ \E c \in 1..Len(calls) :
          calls[c].dir = "entry" /\ calls[c].by = "addrs"
    /\ \E c \in 1..Len(calls) :
          calls[c].dir = "entry" /\ calls[c].by = "syms"
    /\ \E c \in 1..Len(calls) :
          calls[c].dir = "exit" /\ calls[c].by = "syms"

\* single probes with tags were attached for at least two records
C21_WitnessSingle ==
    /\ ~att.use_kprobe_multi /\ ~att.use_fentries
    /\ att.has_bpf_cookie
    /\ ret.attach = "0"
    /\ \E c \in 1..Len(calls) :
          calls[c].op = "attach_kprobe" /\ calls[c].dir = "exit"
          /\ calls[c].fn = 1 /\ calls[c].num = 1

(***************************************************************************)
(* C22. The thread-local cur_attacher is non-NULL only inside              *)
(* mass_attacher__load, from just before the skeleton load call until the  *)
(* call is over: it is NULL whenever the caller has control, in particular *)
(* once mass_attacher__load has returned - with success, with the          *)
(* skeleton's load error, or from a dry run - and while it is non-NULL     *)
(* the skeleton load call has not yet completed.                           *)
(***************************************************************************)
C22_ContextOnlyDuringLoad ==
    /\ cur_attacher <=> pc = "load"
    /\ ret.load # "none" => ~cur_attacher
    /\ cur_attacher =>
          /\ ~skel.loaded
          /\ \A c \in 1..Len(calls) : calls[c].op # "skel_load"

\* mass_attacher__load returned the skeleton's load error
C22_Witness ==
    /\ ret.load \notin {"none", "0"}
    /\ ~skel.loaded
    /\ ~att.dry_run
    /\ pc = "idle"
    /\ ~cur_attacher

\* the engine is inside mass_attacher__load, before the skeleton load call
C22_WitnessInside ==
    /\ pc = "load"
    /\ cur_attacher

\* a dry-run load returned
C22_WitnessDryRun ==
    /\ att.dry_run
    /\ ret.load = "0"
    /\ ~cur_attacher

(***************************************************************************)
(* C23. In the generic modes the pass over the probe-able index considers  *)
(* only names not matched in the pass over the type metadata, so no        *)
(* function has two FunctionRecords, one from each pass; in trampoline     *)
(* mode the second pass does not run and every record comes from the type  *)
(* metadata.  Refuted: the index keeps one entry per line of               *)
(* available_filter_functions, find_kprobe marks only the entry bsearch    *)
(* lands on, and the second pass takes the unmarked twin of a name listed  *)
(* twice for a new candidate.                                              *)
(***************************************************************************)
C23_SecondPassSkipsMatched ==
    /\ \A r, q \in 1..Len(att.func_infos) :
          (att.func_infos[r].btf_id # 0 /\ att.func_infos[q].btf_id = 0) =>
              /\ att.func_infos[r].name # att.func_infos[q].name
              /\ att.func_infos[r].addr # att.func_infos[q].addr
    /\ att.use_fentries =>
          /\ pc # "prepare_kprobes"
          /\ \A r \in 1..Len(att.func_infos) : att.func_infos[r].btf_id # 0

(***************************************************************************)
(* C24. Once the calibration probe set was loaded, calibrate_features      *)
(* destroys it on every path out: after an attach failure, after finding   *)
(* the mandatory return-IP signal missing, and after success; prepare      *)
(* never returns with it still loaded.  Refuted: the return-IP-missing     *)
(* path returns -EFAULT without calib_feat_bpf__destroy.                   *)
(***************************************************************************)
C24_CalibrationSkeletonDestroyed ==
    /\ calib \in {"none", "destroyed"}
    /\ (ret.prepare # "none" /\ ret.prepare # "-EFAULT") => calib = "destroyed"

(***************************************************************************)
(* C25. In trampoline mode, at every point of the enumeration and after    *)
(* it, each arity i whose bucket count is non-zero has a representative    *)
(* func_info_id_for_arg_cnt[i] that is the index of an existing            *)
(* FunctionRecord with exactly i arguments - also when record 0 is in the  *)
(* bucket, where the stored value 0 reads as "unset" and a later member    *)
(* replaces it; the bucket counts are the numbers of records per arity,    *)
(* and after a successful prepare the attach target of bucket i is the     *)
(* name of a record with i arguments.                                      *)
(***************************************************************************)
RecordsOfArity(a, i) ==
    {r \in 1..Len(a.func_infos) : a.func_infos[r].arg_cnt = i}

C25_RepresentativeHasBucketArity ==
    att.use_fentries =>
        \A i \in 0..6 :
            /\ att.func_info_cnts[i] = Cardinality(RecordsOfArity(att, i))
            /\ att.func_info_cnts[i] # 0 =>
                  /\ att.func_info_id_for_arg_cnt[i] \in 0..(att.func_cnt - 1)
                  /\ (att.func_info_id_for_arg_cnt[i] + 1)
                        \in RecordsOfArity(att, i)
                  /\ ret.prepare = "0" =>
                        \E r \in RecordsOfArity(att, i) :
                            skel.attach_target[i] = att.func_infos[r].name

\* record 0 is in a bucket with a later member, which replaced it as the
\* representative
C25_Witness ==
    /\ att.use_fentries
    /\ ret.prepare = "0"
    /\ att.func_cnt >= 2
    /\ LET i == att.func_infos[1].arg_cnt
       IN  /\ att.func_info_cnts[i] >= 2
           /\ att.func_info_id_for_arg_cnt[i] # 0

(***************************************************************************)
(* C26. Every invocation of the caller's func_filter made by a             *)
(* prepare_func call receives the candidate's own type id (0 for a         *)
(* candidate taken from the kprobe index), the candidate's name and the    *)
(* index the record would get, the func_cnt before the call; the id does   *)
(* not depend on the deny and allow rules.                                 *)
(***************************************************************************)
C26_FilterCallStep ==
    (PrepareStep /\ fcalls' # fcalls) =>
        /\ Len(fcalls') = Len(fcalls) + 1
        /\ LET fc == fcalls'[Len(fcalls')]
           IN  /\ fc.name = CurName
               /\ fc.idx = att.func_cnt
               /\ fc.id = CurBtfId

C26_FilterGetsCandidateId == [][C26_FilterCallStep]_vars
=============================================================================
